---- MODULE Spec2Model ----
(***************************************************************************)
(* Model of interlinking.py: the same-host link extractor, the category    *)
(* crawler, the sitemap resolver with its crawl fallback, and the          *)
(* link-match pass of the "Check Interlinking Pages" button.               *)
(*                                                                         *)
(* Strings are sequences of tokens ("https://", "site", "/", "a", "#",     *)
(* " ", ...), so that strip, rstrip('/'), split('#'), substring tests and  *)
(* urlparse(..).netloc act on them the way the Python code acts on         *)
(* characters.                                                             *)
(***************************************************************************)
EXTENDS Integers, Sequences, FiniteSets, TLC

VARIABLES
    pc,                 \* position of the running entry point
    home_url,           \* homepage text the operator typed
    selected_category,  \* category_choice / selected_category
    max_pages,          \* page budget of the running crawl
    target_urls,        \* list built from the target text area (line 310)
    visited,            \* crawl: set of visited URLs
    queue,              \* crawl: frontier
    results,            \* crawl_filtered_pages: list of (url, links)
    all_urls,           \* fallback crawl: collected URLs
    requests,           \* network log: run, url, outcome of every GET issued
    failures,           \* transport failures injected so far
    mi,                 \* link matching: number of crawled pages scanned
    matches_by_target,  \* link matching: buckets (empty before they are built)
    ui,                 \* what the page shows: none, error, warning, results, urls
    visit_limit,        \* sitemap resolver: visit_limit
    to_visit,           \* sitemap resolver: to-visit list
    seen_sitemaps,      \* sitemap resolver: seen set
    found_urls,         \* sitemap resolver: accumulated page URLs
    sitemap_urls,       \* result of _collect_urls_from_sitemaps
    returned,           \* value returned by find_all_internal_urls
    world,              \* which sitemap tree the remote site serves
    sh_a, sh_b, sh_res, \* _same_host: arguments and result
    rx_resp, rx_url,    \* _read_xml_text: the response and its URL
    rx_out,             \* root tag and <loc> values got from rx_resp
    rx_ref              \* the same, got from the plain-text response

vars == <<pc, ui, home_url, selected_category, max_pages, target_urls, visited,
          queue, results, all_urls, requests, failures, mi,
          matches_by_target, visit_limit, to_visit, seen_sitemaps,
          found_urls, sitemap_urls, returned, world, sh_a, sh_b, sh_res,
          rx_resp, rx_url, rx_out, rx_ref>>

(***************************************************************************)
(* Bounds                                                                  *)
(***************************************************************************)
MaxBudget == 3      \* page budgets 0..MaxBudget
MaxFail == 1        \* transport failures injected per run
MaxTargets == 2     \* entries in the target text area
MaxVisitLimit == 2  \* visit_limit 1..MaxVisitLimit, or the default

(***************************************************************************)
(* String operations                                                       *)
(***************************************************************************)
Schemes == {"http://", "https://"}

StartsWith(s, p) == Len(s) >= Len(p) /\ SubSeq(s, 1, Len(p)) = p

\* Python: sub in s
Contains(s, sub) ==
    \E i \in 1..(Len(s) - Len(sub) + 1) : SubSeq(s, i, i + Len(sub) - 1) = sub

RECURSIVE RStripSlash(_)
\* Python: s.rstrip('/')
RStripSlash(s) ==
    IF s # <<>> /\ s[Len(s)] = "/"
    THEN RStripSlash(SubSeq(s, 1, Len(s) - 1))
    ELSE s

RECURSIVE RStripSpace(_)
RStripSpace(s) ==
    IF s # <<>> /\ s[Len(s)] = " "
    THEN RStripSpace(SubSeq(s, 1, Len(s) - 1))
    ELSE s

RECURSIVE LStripSpace(_)
LStripSpace(s) ==
    IF s # <<>> /\ s[1] = " " THEN LStripSpace(Tail(s)) ELSE s

\* Python: s.strip()
Strip(s) == LStripSpace(RStripSpace(s))

RECURSIVE UpTo(_, _)
\* the prefix of s before the first token in stops
UpTo(s, stops) ==
    IF s = <<>> \/ s[1] \in stops THEN <<>>
    ELSE <<s[1]>> \o UpTo(Tail(s), stops)

\* Python: s.split('#')[0]
SplitHash0(s) == UpTo(s, {"#"})

\* Python: n.lower()
LowerTok(t) == IF t = "SITE" THEN "site" ELSE t
Lower(s) == [i \in 1..Len(s) |-> LowerTok(s[i])]

\* urlparse(u).netloc
Netloc(u) ==
    IF u # <<>> /\ u[1] \in Schemes THEN UpTo(Tail(u), {"/", "#", "?"})
    ELSE <<>>

\* scheme://netloc of u, the part urljoin keeps for a site-relative href
Origin(u) ==
    IF u # <<>> /\ u[1] \in Schemes THEN <<u[1]>> \o Netloc(u) ELSE <<>>

\* urljoin(base, href) for an href that is absolute or starts with "/"
\* (hrefs carry no surrounding whitespace and no dot segments here)
urljoin(base, href) ==
    IF href # <<>> /\ href[1] \in Schemes THEN href
    ELSE Origin(base) \o href

_norm_netloc(u) ==
    LET n == Lower(Netloc(u))
    IN  IF StartsWith(n, <<"www.">>) THEN Tail(n) ELSE n

_same_host(a, b) == _norm_netloc(a) = _norm_netloc(b)

_is_http_url(href) ==
    IF href = <<>> THEN FALSE
    ELSE LET h == Strip(href)
         IN  IF h = <<>> THEN FALSE
             ELSE IF h[1] \in {"mailto:", "tel:", "javascript:", "#"}
                  THEN FALSE
                  ELSE h[1] \in {"http://", "https://", "/"}

(***************************************************************************)
(* The remote site                                                         *)
(***************************************************************************)
H == <<"https://", "site">>
WWW == <<"https://", "www.", "site">>
A == H \o <<"/", "a">>
B == H \o <<"/", "b">>
BSlash == H \o <<"/", "b", "/">>
BLOG == H \o <<"/", "blog", "/", "p">>
E == H \o <<"/", "e">>
UPB == <<"https://", "SITE", "/", "b">>

Anchor(href, text) == [href |-> href, text |-> text]

\* what the server answers to GET url: status and the anchors of the body
\* (an empty text stands for an empty body)
Web(url) ==
    CASE url = H ->
           [status |-> 200, text |-> <<
              Anchor(<<"/", "a">>, "Home"),
              Anchor(<<"/", "blog", "/", "p">>, "Blog"),
              Anchor(<<"mailto:", "x">>, "Mail"),
              Anchor(<<"https://", "other", "/", "x">>, "Ext"),
              Anchor(<<"#", "top">>, "Top")>>]
      [] url = WWW ->
           [status |-> 200, text |-> <<
              Anchor(<<"https://", "SITE", "/", "b">>, "Upper"),
              Anchor(<<"https://", "site", "/", "a">>, "Cross")>>]
      [] url = UPB ->
           [status |-> 500, text |-> <<Anchor(<<"/", "a">>, "Err")>>]
      [] url = A ->
           [status |-> 200, text |-> <<Anchor(<<"/", "b">>, "Go")>>]
      [] url = B ->
           [status |-> 200, text |-> <<Anchor(<<"/", "a">>, "")>>]
      [] url = BLOG ->
           [status |-> 200, text |-> <<
              Anchor(<<"/", "b", "/">>, "Slash"),
              Anchor(<<"/", "blog", "/", "p", "#", "f">>, "Self"),
              Anchor(<<"/", "a">>, "Back"),
              Anchor(<<"/", "e">>, "Empty"),
              Anchor(<<"/", "e", "#", "x">>, "Again")>>]
      [] url = E -> [status |-> 200, text |-> <<>>]
      [] OTHER -> [status |-> 404, text |-> <<Anchor(<<"/">>, "Not found")>>]

\* the URL requests.get puts on the wire: the fragment is not sent
Requested(url) == SplitHash0(url)

\* requests.get raises (MissingSchema / InvalidURL) without scheme and host
Fetchable(url) == Netloc(url) # <<>>

(***************************************************************************)
(* get_internal_links                                                      *)
(***************************************************************************)
RECURSIVE ExtractLinks_KeepFragment(_, _)
\* mutant: the fragment of a link is kept
ExtractLinks_KeepFragment(base_url, anchors) ==
    IF anchors = <<>> THEN <<>>
    ELSE LET a == Head(anchors)
             href == urljoin(base_url, a.href)
             rest == ExtractLinks_KeepFragment(base_url, Tail(anchors))
         IN  IF ~_is_http_url(a.href) THEN rest
             ELSE IF _same_host(href, base_url)
                  THEN <<<<href, a.text>>>> \o rest
                  ELSE rest

RECURSIVE ExtractLinks(_, _)
\* the for-loop over soup.find_all('a', href=True)
ExtractLinks(base_url, anchors) ==
    IF anchors = <<>> THEN <<>>
    ELSE LET a == Head(anchors)
             href == SplitHash0(urljoin(base_url, a.href))
             rest == ExtractLinks(base_url, Tail(anchors))
         IN  IF ~_is_http_url(a.href) THEN rest
             ELSE IF _same_host(href, base_url)
                  THEN <<<<href, a.text>>>> \o rest
                  ELSE rest

\* mutant: the body is parsed whatever the status
get_internal_links_IgnoreStatus(base_url, ok) ==
    IF ~Fetchable(base_url) \/ ~ok THEN <<>>
    ELSE ExtractLinks(base_url, Web(Requested(base_url)).text)

\* ok = FALSE: the transport fails (connection error, timeout)
get_internal_links(base_url, ok) ==
    IF ~Fetchable(base_url) \/ ~ok THEN <<>>
    ELSE LET response == Web(Requested(base_url))
         IN  IF response.status # 200 \/ response.text = <<>> THEN <<>>
             ELSE ExtractLinks(base_url, response.text)

(***************************************************************************)
(* crawl_filtered_pages                                                    *)
(***************************************************************************)
Categories == {"Blog Pages", "Blog Categories", "Product Pages", "All Pages"}

\* category_keywords.get(selected_category): a str, a list or None
category_keywords(cat) ==
    CASE cat = "Blog Pages" -> [kind |-> "str", kws |-> {<<"/", "blog">>}]
      [] cat = "Blog Categories" ->
           [kind |-> "str", kws |-> {<<"/", "category">>}]
      [] cat = "Product Pages" ->
           [kind |-> "list",
            kws |-> {<<"/", "product">>, <<"/", "products">>}]
      [] OTHER -> [kind |-> "none", kws |-> {}]

\* the keyword test of lines 88-90 and 100-104
KeywordMatch(cat, url) ==
    LET match_keywords == category_keywords(cat)
    IN  match_keywords.kind \in {"str", "list"}
        /\ \E kw \in match_keywords.kws : Contains(url, kw)

\* mutant: every visited page is recorded
Recorded_Always(cat, url) == TRUE

\* lines 87-91: is the page itself recorded
Recorded(cat, url) == cat = "All Pages" \/ KeywordMatch(cat, url)

InSeq(x, s) == \E i \in 1..Len(s) : s[i] = x

RECURSIVE EnqueueLinks_NoQueueCheck(_, _, _, _)
\* mutant: a link is tested against visited only, not against the queue
EnqueueLinks_NoQueueCheck(links, q, vis, cat) ==
    IF links = <<>> THEN q
    ELSE LET link == Head(links)[1]
             q2 == IF link \in vis THEN q
                   ELSE IF cat = "All Pages" \/ KeywordMatch(cat, link)
                        THEN Append(q, link)
                        ELSE q
         IN  EnqueueLinks_NoQueueCheck(Tail(links), q2, vis, cat)

RECURSIVE EnqueueLinks_AllLinks(_, _, _, _)
\* mutant: every new link is enqueued, whatever the category
EnqueueLinks_AllLinks(links, q, vis, cat) ==
    IF links = <<>> THEN q
    ELSE LET link == Head(links)[1]
             q2 == IF link \in vis \/ InSeq(link, q) THEN q
                   ELSE Append(q, link)
         IN  EnqueueLinks_AllLinks(Tail(links), q2, vis, cat)

RECURSIVE EnqueueLinks_Prepend(_, _, _, _)
\* mutant: a new link is put at the front of the queue
EnqueueLinks_Prepend(links, q, vis, cat) ==
    IF links = <<>> THEN q
    ELSE LET link == Head(links)[1]
             q2 == IF link \in vis \/ InSeq(link, q) THEN q
                   ELSE IF cat = "All Pages" \/ KeywordMatch(cat, link)
                        THEN <<link>> \o q
                        ELSE q
         IN  EnqueueLinks_Prepend(Tail(links), q2, vis, cat)

RECURSIVE EnqueueLinks(_, _, _, _)
\* lines 95-105: the queue after the traversal-policy loop
EnqueueLinks(links, q, vis, cat) ==
    IF links = <<>> THEN q
    ELSE LET link == Head(links)[1]
             q2 == IF link \in vis \/ InSeq(link, q) THEN q
                   ELSE IF cat = "All Pages" \/ KeywordMatch(cat, link)
                        THEN Append(q, link)
                        ELSE q
         IN  EnqueueLinks(Tail(links), q2, vis, cat)

(***************************************************************************)
(* Sitemap documents served by the site                                    *)
(***************************************************************************)
ROBOTS == H \o <<"/", "robots.txt">>
SM == H \o <<"/", "sitemap.xml">>
SMI == H \o <<"/", "sitemap_index.xml">>
SMD == H \o <<"/", "sitemap-index.xml">>
SMS == H \o <<"/", "sitemap", "/", "sitemap.xml">>
IDX == H \o <<"/", "idx.xml">>
C1 == H \o <<"/", "c1.xml">>
C2 == H \o <<"/", "c2.xml">>
C2GZ == H \o <<"/", "c2.xml", ".gz">>
OTHERX == <<"https://", "other", "/", "x">>
WWWA == WWW \o <<"/", "a">>

Worlds == 1..5

\* a text: empty, or XML (well-formed or not) with a root tag and <loc> texts
Xml(tag, locs) == [empty |-> FALSE, wf |-> TRUE, tag |-> tag, locs |-> locs]
Malformed == [empty |-> FALSE, wf |-> FALSE, tag |-> <<>>, locs |-> <<>>]
NoText == [empty |-> TRUE, wf |-> FALSE, tag |-> <<>>, locs |-> <<>>]
\* a response: status, content type, whether the body bytes are a gzip
\* stream, the text the (decoded) body spells, and its lines for robots.txt
Ok(ct, gz, xml) ==
    [status |-> 200, ct |-> ct, gz |-> gz, xml |-> xml, lines |-> <<>>]
NotFound ==
    [status |-> 404, ct |-> "text/html", gz |-> FALSE, xml |-> Malformed,
     lines |-> <<<<"Not found">>>>]
\* None, where the code holds a response
NoResponse ==
    [status |-> 0, ct |-> "", gz |-> FALSE, xml |-> NoText, lines |-> <<>>]

Index(locs) == Xml(<<"{ns}", "sitemapindex">>, locs)
Urlset(locs) == Xml(<<"{ns}", "urlset">>, locs)

\* world 1: no robots.txt, no sitemap
\* world 2: sitemap.xml is an index of two urlsets sharing one URL
\* world 3: robots.txt names idx.xml; idx.xml lists a child twice, itself,
\*          a gzipped child and a blank <loc>
\* world 4: a malformed sitemap.xml, two indexes naming each other and the
\*          same children, a gzip content type on a body that is not gzip
\* world 5: three urlsets at the conventional paths, two listing one page
Served(w, url) ==
    CASE w = 2 /\ url = SM -> Ok("application/xml", FALSE, Index(<<C1, C2>>))
      [] w \in {2, 4} /\ url = C1 ->
           Ok("application/xml", FALSE, Urlset(<<A, B, BLOG>>))
      [] w = 2 /\ url = C2 ->
           Ok("text/xml", FALSE, Urlset(<<B, E, BSlash>>))
      [] w = 3 /\ url = IDX ->
           Ok("", FALSE,
              Xml(<<"SITEMAPINDEX">>, <<C1, C1, IDX, <<" ">>, C2GZ, <<>>>>))
      [] w = 3 /\ url = C1 ->
           Ok("application/xml", FALSE,
              Urlset(<<<<" ">> \o A \o <<" ">>, OTHERX, A \o <<"#", "f">>,
                       WWWA>>))
      [] w = 3 /\ url = C2GZ ->
           Ok("application/octet-stream", TRUE, Urlset(<<B, A>>))
      [] w = 4 /\ url = SM -> Ok("application/xml", FALSE, Malformed)
      [] w = 4 /\ url = SMI ->
           Ok("application/xml", FALSE, Index(<<C1, C2, SMD>>))
      [] w = 4 /\ url = SMD ->
           Ok("application/xml", FALSE, Index(<<C1, SMI>>))
      [] w = 4 /\ url = SMS ->
           Ok("application/gzip", FALSE, Urlset(<<E>>))
      [] w = 2 /\ url = SMI -> Ok("application/xml", FALSE, NoText)
      [] w = 5 /\ url \in {SM, SMI} ->
           Ok("application/xml", FALSE, Urlset(<<A>>))
      [] w = 5 /\ url = SMD -> Ok("application/xml", FALSE, Urlset(<<B>>))
      [] w = 3 /\ url = ROBOTS ->
           [status |-> 200, ct |-> "text/plain", gz |-> FALSE,
            xml |-> Malformed,
            lines |-> <<
              <<"User-agent:", " ", "*">>,
              <<"Sitemap:", " ">> \o SM,
              <<"sitemap:", " ">> \o IDX \o <<" ">>,
              <<"Sitemap:">> \o IDX,
              <<"Sitemap:", " ">>,
              <<" ", "Sitemap:">> \o C2 >>]
      [] w = 4 /\ url = ROBOTS ->
           [status |-> 200, ct |-> "text/plain", gz |-> FALSE,
            xml |-> NoText, lines |-> <<>>]
      [] w = 4 /\ url = C2 ->
           Ok("application/x-gzip", TRUE, Urlset(<<E, B>>))
      [] OTHER -> NotFound

(***************************************************************************)
(* Sitemap helpers                                                         *)
(***************************************************************************)
LowerTag(t) ==
    CASE t = "SITEMAPINDEX" -> "sitemapindex"
      [] t = "Sitemap:" -> "sitemap:"
      [] OTHER -> LowerTok(t)

\* _fetch_text: the response, or NoResponse for None
_fetch_text(w, url, ok) ==
    IF ~Fetchable(url) \/ ~ok THEN NoResponse
    ELSE LET r == Served(w, url)
         IN  IF r.status = 200 THEN r ELSE NoResponse

GzipInCt(ct) == ct \in {"application/gzip", "application/x-gzip"}

\* url.lower().endswith(".gz")
EndsWithGz(url) == url # <<>> /\ LowerTok(url[Len(url)]) = ".gz"

\* mutant: a body that fails to decompress is read as text
_read_xml_text_FallbackToText(resp, url) ==
    IF resp = NoResponse THEN NoText
    ELSE IF EndsWithGz(url) \/ GzipInCt(resp.ct)
         THEN resp.xml
         ELSE IF resp.gz THEN Malformed ELSE resp.xml

\* mutant: the body is always taken as text, never decompressed
_read_xml_text_NeverGunzip(resp, url) ==
    IF resp = NoResponse THEN NoText
    ELSE IF resp.gz THEN Malformed ELSE resp.xml

\* _read_xml_text: the XML text, or NoText for None
_read_xml_text(resp, url) ==
    IF resp = NoResponse THEN NoText
    ELSE IF EndsWithGz(url) \/ GzipInCt(resp.ct)
         THEN \* gzip.GzipFile raises on a body that is not a gzip stream
              IF resp.gz THEN resp.xml ELSE NoText
         ELSE \* resp.text of a gzip stream is not XML
              IF resp.gz THEN Malformed ELSE resp.xml

RECURSIVE StripLocs(_)
\* [el.text.strip() for el in root.findall(".//{*}loc") if el.text]
StripLocs(locs) ==
    IF locs = <<>> THEN <<>>
    ELSE IF Head(locs) = <<>> THEN StripLocs(Tail(locs))
         ELSE <<Strip(Head(locs))>> \o StripLocs(Tail(locs))

\* _parse_sitemap_xml: <<root_tag, locs>>
_parse_sitemap_xml(xml_text) ==
    IF ~xml_text.wf THEN <<<<>>, <<>>>>
    ELSE LET tag == [i \in 1..Len(xml_text.tag) |-> LowerTag(xml_text.tag[i])]
             tag2 == IF tag # <<>> /\ tag[1] = "{ns}" THEN Tail(tag) ELSE tag
         IN  <<tag2, StripLocs(xml_text.locs)>>

RECURSIVE RobotsSitemaps(_)
\* lines 163-167: the Sitemap: values of the robots.txt lines
RobotsSitemaps(lines) ==
    IF lines = <<>> THEN <<>>
    ELSE LET line == Head(lines)
             rest == RobotsSitemaps(Tail(lines))
         IN  IF line # <<>> /\ LowerTag(line[1]) = "sitemap:"
             THEN LET sm == Strip(Tail(line))
                  IN  IF sm # <<>> THEN <<sm>> \o rest ELSE rest
             ELSE rest

_discover_sitemaps_from_robots(w, home, ok) ==
    LET robots_url == urljoin(home, <<"/", "robots.txt">>)
        resp == _fetch_text(w, robots_url, ok)
    IN  IF resp # NoResponse /\ resp.lines # <<>>
        THEN RobotsSitemaps(resp.lines)
        ELSE <<>>

\* mutant: nothing is de-duplicated
AppendNew_KeepAll(candidates, more) == candidates \o more

RECURSIVE AppendNew(_, _)
\* lines 179-181 (and the de-dup loops): append what is not yet listed
AppendNew(candidates, more) ==
    IF more = <<>> THEN candidates
    ELSE AppendNew(IF InSeq(Head(more), candidates) THEN candidates
                   ELSE Append(candidates, Head(more)),
                   Tail(more))

_candidate_sitemap_urls(w, home, ok) ==
    LET candidates == <<
            urljoin(home, <<"/", "sitemap.xml">>),
            urljoin(home, <<"/", "sitemap_index.xml">>),
            urljoin(home, <<"/", "sitemap-index.xml">>),
            urljoin(home, <<"/", "sitemap", "/", "sitemap.xml">>) >>
    IN  AppendNew(candidates, _discover_sitemaps_from_robots(w, home, ok))

RECURSIVE FilterHost(_, _)
\* lines 187-193
FilterHost(urls, base) ==
    IF urls = <<>> THEN <<>>
    ELSE LET u == Head(urls)
             rest == FilterHost(Tail(urls), base)
         IN  IF _norm_netloc(u) = base
             THEN <<Strip(SplitHash0(u))>> \o rest
             ELSE rest

_filter_same_site_urls(urls, home) ==
    AppendNew(<<>>, FilterHost(urls, _norm_netloc(home)))

RECURSIVE EnqueueChildren(_, _, _)
\* lines 227-229
EnqueueChildren(locs, tv, seen) ==
    IF locs = <<>> THEN tv
    ELSE EnqueueChildren(Tail(locs),
                         IF Head(locs) \notin seen
                         THEN Append(tv, Head(locs)) ELSE tv,
                         seen)

(***************************************************************************)
(* Lexicographic order of strings, for sorted()                            *)
(***************************************************************************)
TokOrder == << " ", "#", ".gz", "/", "SITE", "a", "b", "blog", "e", "f",
               "https://", "other", "p", "site", "top", "www.", "x" >>

TokRank(t) == IF InSeq(t, TokOrder)
              THEN CHOOSE i \in 1..Len(TokOrder) : TokOrder[i] = t
              ELSE Len(TokOrder) + 1

RECURSIVE LexLess(_, _)
LexLess(s, t) ==
    IF t = <<>> THEN FALSE
    ELSE IF s = <<>> THEN TRUE
    ELSE IF s[1] = t[1] THEN LexLess(Tail(s), Tail(t))
    ELSE TokRank(s[1]) < TokRank(t[1])

RECURSIVE sorted_Reverse(_)
\* mutant: the greatest first
sorted_Reverse(S) ==
    IF S = {} THEN <<>>
    ELSE LET m == CHOOSE x \in S : \A y \in S : x = y \/ LexLess(y, x)
         IN  <<m>> \o sorted_Reverse(S \ {m})

RECURSIVE sorted(_)
sorted(S) ==
    IF S = {} THEN <<>>
    ELSE LET m == CHOOSE x \in S : \A y \in S : x = y \/ LexLess(x, y)
         IN  <<m>> \o sorted(S \ {m})

RECURSIVE FallbackEnqueue(_, _, _)
\* lines 278-280
FallbackEnqueue(links, q, vis) ==
    IF links = <<>> THEN q
    ELSE LET link == Head(links)[1]
         IN  FallbackEnqueue(Tail(links),
                             IF link \notin vis /\ ~InSeq(link, q)
                             THEN Append(q, link) ELSE q,
                             vis)

(***************************************************************************)
(* Inputs of the forms                                                     *)
(***************************************************************************)
\* homepage texts typed into "Enter your homepage URL"
Homes == {<<>>, <<"site">>, H \o <<"/">>, WWW, A}

\* the pieces of the target text area between commas and newlines
TargetTexts ==
    { B,
      <<" ">> \o B \o <<"/", " ">>,
      B \o <<" ", "/">>,
      A \o <<"/", "/">>,
      <<" ">> }

TargetInputs == UNION {[1..n -> TargetTexts] : n \in 0..MaxTargets}

\* line 310: url.strip().rstrip('/')
NormalizeTarget(url) == RStripSlash(Strip(url))

RECURSIVE SelectTargets(_)
\* line 310: [url.strip().rstrip('/') for url in ... if url.strip()]
SelectTargets(pieces) ==
    IF pieces = <<>> THEN <<>>
    ELSE LET url == Head(pieces)
         IN  IF Strip(url) # <<>>
             THEN <<NormalizeTarget(url)>> \o SelectTargets(Tail(pieces))
             ELSE SelectTargets(Tail(pieces))

Range(s) == {s[i] : i \in 1..Len(s)}

\* mutant: only the first target gets a bucket
targets_set_FirstOnly(targets) == {RStripSlash(targets[1])}

\* line 325: set(t.rstrip('/') for t in target_urls)
targets_set(targets) == {RStripSlash(t) : t \in Range(targets)}

RECURSIVE MatchLinks_NoStrip(_, _, _, _)
\* mutant: the link is compared without stripping its trailing slash
MatchLinks_NoStrip(page, links, tset, buckets) ==
    IF links = <<>> THEN buckets
    ELSE LET link == Head(links)[1]
             anchor == Head(links)[2]
             b2 == IF link \in tset
                   THEN [buckets EXCEPT ![link] = Append(@, <<page, anchor>>)]
                   ELSE buckets
         IN  MatchLinks_NoStrip(page, Tail(links), tset, b2)

RECURSIVE MatchLinks(_, _, _, _)
\* lines 329-332: the buckets after scanning the links of one page
MatchLinks(page, links, tset, buckets) ==
    IF links = <<>> THEN buckets
    ELSE LET link == Head(links)[1]
             anchor == Head(links)[2]
             link_norm == RStripSlash(link)
             b2 == IF link_norm \in tset
                   THEN [buckets EXCEPT
                           ![link_norm] = Append(@, <<page, anchor>>)]
                   ELSE buckets
         IN  MatchLinks(page, Tail(links), tset, b2)

(***************************************************************************)
(* "Check Interlinking Pages"                                              *)
(***************************************************************************)
crawlVars == <<visited, queue, results>>
matchVars == <<mi, matches_by_target>>
sitemapVars == <<visit_limit, to_visit, seen_sitemaps, found_urls,
                 sitemap_urls, returned, world, all_urls>>
hostVars == <<sh_a, sh_b, sh_res>>
xmlVars == <<rx_resp, rx_url, rx_out, rx_ref>>

\* a GET issued by run; ok = FALSE: the transport failed
Get(run, url, ok) == [run |-> run, url |-> url, ok |-> ok]

\* mutant: a dequeued URL is never recognised as visited
AlreadyVisited_Never(url, seen) == FALSE

\* lines 80, 211, 273: the membership test that skips a dequeued URL
AlreadyVisited(url, seen) == url \in seen

\* mutant: the budget test is off by one
CrawlLoop_OffByOne(q, vis, budget) == q # <<>> /\ Cardinality(vis) <= budget

\* lines 78, 271: the condition of the crawl loops
CrawlLoop(q, vis, budget) == q # <<>> /\ Cardinality(vis) < budget

\* line 209: the condition of the resolver loop
SitemapLoop(tv, found, limit) == tv # <<>> /\ Len(found) < limit

\* which transport outcomes may be drawn for a GET of url
Outcomes(url) ==
    IF failures < MaxFail /\ Fetchable(url) THEN BOOLEAN ELSE {TRUE}

\* lines 302-317: the inputs are read, validated, and the crawl is entered
ClickCheck ==
    /\ pc = "idle"
    /\ \E h \in Homes, c \in Categories, t \in TargetInputs,
          budget \in 0..MaxBudget :
         /\ home_url' = h
         /\ selected_category' = c
         /\ target_urls' = SelectTargets(t)
         /\ max_pages' = budget
         /\ IF h = <<>> \/ SelectTargets(t) = <<>>
            THEN /\ pc' = "done"
                 /\ ui' = "error"
                 /\ UNCHANGED crawlVars
            ELSE /\ pc' = "crawl"
                 /\ ui' = ui
                 /\ visited' = {}
                 /\ queue' = <<RStripSlash(h)>>
                 /\ results' = <<>>
    /\ UNCHANGED <<requests, failures, matchVars, sitemapVars,
                   hostVars, xmlVars>>

\* lines 78-105: one iteration of the while loop
CrawlStep ==
    /\ pc = "crawl"
    /\ CrawlLoop(queue, visited, max_pages)
    /\ LET url == Head(queue)
           q1 == Tail(queue)
       IN  IF AlreadyVisited(url, visited)
           THEN /\ queue' = q1
                /\ UNCHANGED <<visited, results, requests, failures>>
           ELSE \E ok \in Outcomes(url) :
                  LET links == get_internal_links(url, ok)
                  IN  /\ visited' = visited \cup {url}
                      /\ requests' = Append(requests, Get("crawl", url, ok))
                      /\ failures' = IF ok THEN failures ELSE failures + 1
                      /\ results' =
                           IF Recorded(selected_category, url)
                           THEN Append(results, <<url, links>>)
                           ELSE results
                      /\ queue' = EnqueueLinks(links, q1, visited \cup {url},
                                               selected_category)
    /\ UNCHANGED <<pc, ui, home_url, selected_category, max_pages,
                   target_urls, matchVars, sitemapVars,
                   hostVars, xmlVars>>

\* lines 107, 319-326: the crawl returns and the buckets are set up
CrawlReturn ==
    /\ pc = "crawl"
    /\ ~CrawlLoop(queue, visited, max_pages)
    /\ IF results = <<>>
       THEN /\ pc' = "done"
            /\ ui' = "warning"
            /\ UNCHANGED matchVars
       ELSE /\ pc' = "match"
            /\ ui' = ui
            /\ mi' = 0
            /\ matches_by_target' =
                 [target \in targets_set(target_urls) |-> <<>>]
    /\ UNCHANGED <<home_url, selected_category, max_pages, target_urls,
                   crawlVars, requests, failures, sitemapVars,
                   hostVars, xmlVars>>

\* lines 328-332: one crawled page is scanned
MatchPage ==
    /\ pc = "match"
    /\ mi < Len(results)
    /\ LET page == results[mi + 1][1]
           links == results[mi + 1][2]
       IN  matches_by_target' =
             MatchLinks(page, links, targets_set(target_urls),
                        matches_by_target)
    /\ mi' = mi + 1
    /\ UNCHANGED <<pc, ui, home_url, selected_category, max_pages,
                   target_urls, crawlVars, requests, failures, sitemapVars,
                   hostVars, xmlVars>>

\* lines 334-353: all pages scanned, the buckets are rendered
MatchDone ==
    /\ pc = "match"
    /\ mi = Len(results)
    /\ pc' = "done"
    /\ ui' = "results"
    /\ UNCHANGED <<home_url, selected_category, max_pages, target_urls,
                   crawlVars, requests, failures, matchVars, sitemapVars,
                   hostVars, xmlVars>>

(***************************************************************************)
(* "Find All URLs": find_all_internal_urls                                 *)
(***************************************************************************)
DefaultVisitLimit == 30000

\* homepage texts typed into "Enter website homepage URL"
DiscoverHomes ==
    { <<>>, <<" ">>, <<"site">>, <<" ">> \o H \o <<"/", " ">>, WWW,
      H \o <<"#", "f">> }

VisitLimits == (1..MaxVisitLimit) \cup {DefaultVisitLimit}

\* lines 359-365, 248-260, 205-207: the input is read and validated, the
\* candidate sitemaps are listed (robots.txt is fetched)
ClickFindAll ==
    /\ pc = "idle"
    /\ \E h \in DiscoverHomes, w \in Worlds, budget \in 0..MaxBudget,
          vl \in VisitLimits :
         /\ world' = w
         /\ max_pages' = budget
         /\ visit_limit' = vl
         /\ home_url' = Strip(h)
         /\ IF h = <<>>
            THEN /\ pc' = "done"
                 /\ ui' = "error"
                 /\ UNCHANGED <<to_visit, requests, failures>>
            ELSE IF Strip(h) = <<>>
            THEN /\ pc' = "done"
                 /\ ui' = "warning"
                 /\ UNCHANGED <<to_visit, requests, failures>>
            ELSE LET robots_url == urljoin(Strip(h), <<"/", "robots.txt">>)
                 IN  \E ok \in Outcomes(robots_url) :
                       /\ pc' = "sitemaps"
                       /\ ui' = ui
                       /\ to_visit' = _candidate_sitemap_urls(w, Strip(h), ok)
                       /\ requests' =
                            Append(requests, Get("robots", robots_url, ok))
                       /\ failures' = IF ok THEN failures ELSE failures + 1
    /\ UNCHANGED <<selected_category, target_urls, crawlVars, matchVars,
                   seen_sitemaps, found_urls, sitemap_urls, returned,
                   all_urls,
                   hostVars, xmlVars>>

\* mutant: a fetched sitemap is not added to seen_sitemaps
SitemapStep_NoSeenUpdate ==
    /\ pc = "sitemaps"
    /\ SitemapLoop(to_visit, found_urls, visit_limit)
    /\ LET sm_url == Head(to_visit)
           tv == Tail(to_visit)
       IN  IF AlreadyVisited(sm_url, seen_sitemaps)
           THEN /\ to_visit' = tv
                /\ UNCHANGED <<seen_sitemaps, found_urls, requests, failures>>
           ELSE \E ok \in Outcomes(sm_url) :
                  \E seen \in {seen_sitemaps},
                     resp \in {_fetch_text(world, sm_url, ok)} :
                  \E xml_text \in {_read_xml_text(resp, sm_url)} :
                  \E parsed \in {_parse_sitemap_xml(xml_text)} :
                  \E root_tag \in {parsed[1]}, locs \in {parsed[2]} :
                      /\ seen_sitemaps' = seen
                      /\ requests' = Append(requests, Get("sitemap", sm_url, ok))
                      /\ failures' = IF ok THEN failures ELSE failures + 1
                      /\ IF xml_text.empty \/ locs = <<>>
                         THEN /\ to_visit' = tv
                              /\ found_urls' = found_urls
                         ELSE IF root_tag = <<"sitemapindex">>
                         THEN /\ to_visit' = EnqueueChildren(locs, tv, seen)
                              /\ found_urls' = found_urls
                         ELSE /\ to_visit' = tv
                              /\ found_urls' = found_urls \o
                                   _filter_same_site_urls(locs, home_url)
    /\ UNCHANGED <<pc, ui, home_url, selected_category, max_pages,
                   target_urls, crawlVars, matchVars, visit_limit,
                   sitemap_urls, returned, world, all_urls,
                   hostVars, xmlVars>>

\* lines 209-234: one iteration of the while loop
SitemapStep ==
    /\ pc = "sitemaps"
    /\ SitemapLoop(to_visit, found_urls, visit_limit)
    /\ LET sm_url == Head(to_visit)
           tv == Tail(to_visit)
       IN  IF AlreadyVisited(sm_url, seen_sitemaps)
           THEN /\ to_visit' = tv
                /\ UNCHANGED <<seen_sitemaps, found_urls, requests, failures>>
           ELSE \E ok \in Outcomes(sm_url) :
                  \E seen \in {seen_sitemaps \cup {sm_url}},
                     resp \in {_fetch_text(world, sm_url, ok)} :
                  \E xml_text \in {_read_xml_text(resp, sm_url)} :
                  \E parsed \in {_parse_sitemap_xml(xml_text)} :
                  \E root_tag \in {parsed[1]}, locs \in {parsed[2]} :
                      /\ seen_sitemaps' = seen
                      /\ requests' = Append(requests, Get("sitemap", sm_url, ok))
                      /\ failures' = IF ok THEN failures ELSE failures + 1
                      /\ IF xml_text.empty \/ locs = <<>>
                         THEN /\ to_visit' = tv
                              /\ found_urls' = found_urls
                         ELSE IF root_tag = <<"sitemapindex">>
                         THEN /\ to_visit' = EnqueueChildren(locs, tv, seen)
                              /\ found_urls' = found_urls
                         ELSE /\ to_visit' = tv
                              /\ found_urls' = found_urls \o
                                   _filter_same_site_urls(locs, home_url)
    /\ UNCHANGED <<pc, ui, home_url, selected_category, max_pages,
                   target_urls, crawlVars, matchVars, visit_limit,
                   sitemap_urls, returned, world, all_urls,
                   hostVars, xmlVars>>

\* mutant: the fallback crawl is entered whatever the resolver found
SitemapReturn_AlwaysFallback ==
    /\ pc = "sitemaps"
    /\ ~SitemapLoop(to_visit, found_urls, visit_limit)
    /\ sitemap_urls' = AppendNew(<<>>, found_urls)
    /\ pc' = "fallback"
    /\ all_urls' = {}
    /\ visited' = {}
    /\ queue' = <<RStripSlash(home_url)>>
    /\ UNCHANGED <<ui, returned, home_url, selected_category, max_pages,
                   target_urls, results, requests, failures, matchVars,
                   visit_limit, to_visit, seen_sitemaps, found_urls, world,
                   hostVars, xmlVars>>

\* lines 236-243, 260-269: the resolver returns; its list is returned as
\* is, or the fallback crawl is set up
SitemapReturn ==
    /\ pc = "sitemaps"
    /\ ~SitemapLoop(to_visit, found_urls, visit_limit)
    /\ LET ordered == AppendNew(<<>>, found_urls)
       IN  /\ sitemap_urls' = ordered
           /\ IF ordered # <<>>
              THEN /\ returned' = ordered
                   /\ pc' = "done"
                   /\ ui' = "urls"
                   /\ UNCHANGED <<visited, queue, all_urls>>
              ELSE /\ pc' = "fallback"
                   /\ ui' = ui
                   /\ all_urls' = {}
                   /\ visited' = {}
                   /\ queue' = <<RStripSlash(home_url)>>
                   /\ UNCHANGED returned
    /\ UNCHANGED <<home_url, selected_category, max_pages, target_urls,
                   results, requests, failures, matchVars, visit_limit,
                   to_visit, seen_sitemaps, found_urls, world,
                   hostVars, xmlVars>>

\* lines 271-281: one iteration of the fallback while loop
FallbackStep ==
    /\ pc = "fallback"
    /\ CrawlLoop(queue, visited, max_pages)
    /\ LET url == Head(queue)
           q1 == Tail(queue)
       IN  IF AlreadyVisited(url, visited)
           THEN /\ queue' = q1
                /\ UNCHANGED <<visited, all_urls, requests, failures>>
           ELSE \E ok \in Outcomes(url) :
                  LET links == get_internal_links(url, ok)
                  IN  /\ visited' = visited \cup {url}
                      /\ requests' = Append(requests, Get("fallback", url, ok))
                      /\ failures' = IF ok THEN failures ELSE failures + 1
                      /\ queue' = FallbackEnqueue(links, q1,
                                                  visited \cup {url})
                      /\ all_urls' = all_urls \cup {url}
    /\ UNCHANGED <<pc, ui, home_url, selected_category, max_pages,
                   target_urls, results, matchVars, visit_limit, to_visit,
                   seen_sitemaps, found_urls, sitemap_urls, returned, world,
                   hostVars, xmlVars>>

\* lines 283-285, 367-372: the fallback result is filtered, sorted, returned
FallbackReturn ==
    /\ pc = "fallback"
    /\ ~CrawlLoop(queue, visited, max_pages)
    /\ LET keep == _filter_same_site_urls(sorted(all_urls), home_url)
       IN  /\ returned' = keep
           /\ ui' = IF keep = <<>> THEN "warning" ELSE "urls"
    /\ pc' = "done"
    /\ UNCHANGED <<home_url, selected_category, max_pages, target_urls,
                   crawlVars, requests, failures, matchVars, visit_limit,
                   to_visit, seen_sitemaps, found_urls, sitemap_urls, world,
                   all_urls,
                   hostVars, xmlVars>>

\* _read_xml_text not called on its own
XmlIdle ==
    /\ rx_resp = NoResponse
    /\ rx_url = <<>>
    /\ rx_out = <<<<>>, <<>>>>
    /\ rx_ref = <<<<>>, <<>>>>

\* nothing fetched, matched or resolved yet
Untouched ==
    /\ ui = "none"
    /\ all_urls = {}
    /\ requests = <<>>
    /\ failures = 0
    /\ mi = 0
    /\ matches_by_target = <<>>
    /\ visit_limit = 0
    /\ to_visit = <<>>
    /\ seen_sitemaps = {}
    /\ found_urls = <<>>
    /\ sitemap_urls = <<>>
    /\ returned = <<>>
    /\ world = 1

Init ==
    /\ pc = "idle"
    /\ home_url = <<>>
    /\ selected_category = "All Pages"
    /\ max_pages = 0
    /\ target_urls = <<>>
    /\ visited = {}
    /\ queue = <<>>
    /\ results = <<>>
    /\ Untouched
    /\ sh_a = <<>>
    /\ sh_b = <<>>
    /\ sh_res = FALSE
    /\ XmlIdle

Next ==
    \/ ClickCheck
    \/ CrawlStep
    \/ CrawlReturn
    \/ MatchPage
    \/ MatchDone
    \/ ClickFindAll
    \/ SitemapStep
    \/ SitemapReturn
    \/ FallbackStep
    \/ FallbackReturn

Spec == Init /\ [][Next]_vars

(***************************************************************************)
(* crawl_filtered_pages called on its own                                  *)
(***************************************************************************)
\* lines 66-76: the state on entry to the while loop
CrawlInit ==
    /\ pc = "crawl"
    /\ home_url \in Homes \ {<<>>}
    /\ selected_category \in Categories
    /\ max_pages \in 0..MaxBudget
    /\ target_urls = <<B>>
    /\ visited = {}
    /\ queue = <<RStripSlash(home_url)>>
    /\ results = <<>>
    /\ Untouched
    /\ sh_a = <<>>
    /\ sh_b = <<>>
    /\ sh_res = FALSE
    /\ XmlIdle

CrawlNext ==
    \/ CrawlStep
    \/ CrawlReturn
    \/ MatchPage
    \/ MatchDone

\* the interpreter runs the loop on: an enabled step is eventually taken
CrawlFairSpec == CrawlInit /\ [][CrawlNext]_vars /\ WF_vars(CrawlNext)

(***************************************************************************)
(* _collect_urls_from_sitemaps called on its own                           *)
(***************************************************************************)
\* lines 205-207: the state on entry to the while loop
ResolverInit ==
    /\ pc = "sitemaps"
    /\ \E h \in DiscoverHomes, ok \in BOOLEAN :
         LET robots_url == urljoin(Strip(h), <<"/", "robots.txt">>)
         IN  /\ Strip(h) # <<>>
             /\ ok \/ Fetchable(robots_url)
             /\ home_url = Strip(h)
             /\ world \in Worlds
             /\ requests = <<Get("robots", robots_url, ok)>>
             /\ failures = IF ok THEN 0 ELSE 1
             /\ to_visit = _candidate_sitemap_urls(world, home_url, ok)
    /\ visit_limit \in VisitLimits
    /\ seen_sitemaps = {}
    /\ found_urls = <<>>
    /\ sitemap_urls = <<>>
    /\ returned = <<>>
    /\ all_urls = {}
    /\ ui = "none"
    /\ mi = 0
    /\ matches_by_target = <<>>
    /\ selected_category = "All Pages"
    /\ max_pages = 0
    /\ target_urls = <<>>
    /\ visited = {}
    /\ queue = <<>>
    /\ results = <<>>
    /\ sh_a = <<>>
    /\ sh_b = <<>>
    /\ sh_res = FALSE
    /\ XmlIdle

ResolverNext ==
    \/ SitemapStep
    \/ SitemapReturn

\* the interpreter runs the loop on: an enabled step is eventually taken
ResolverFairSpec ==
    ResolverInit /\ [][ResolverNext]_vars /\ WF_vars(ResolverNext)

(***************************************************************************)
(* _same_host applied to pairs of URLs                                     *)
(***************************************************************************)
HostUrls ==
    { <<>>, <<"site">>, <<"/", "a">>, <<"mailto:", "x">>, <<"https://">>,
      H, H \o <<"#", "f">>, <<"http://", "site">>, WWWA,
      UPB, OTHERX }

HostInit ==
    /\ pc = "same_host"
    /\ sh_a \in HostUrls
    /\ sh_b \in HostUrls
    /\ sh_res = FALSE
    /\ XmlIdle
    /\ home_url = <<>>
    /\ selected_category = "All Pages"
    /\ max_pages = 0
    /\ target_urls = <<>>
    /\ visited = {}
    /\ queue = <<>>
    /\ results = <<>>
    /\ Untouched

\* line 30
CallSameHost ==
    /\ pc = "same_host"
    /\ sh_res' = _same_host(sh_a, sh_b)
    /\ pc' = "returned"
    /\ UNCHANGED <<ui, home_url, selected_category, max_pages, target_urls,
                   crawlVars, all_urls, requests, failures, matchVars,
                   visit_limit, to_visit, seen_sitemaps, found_urls,
                   sitemap_urls, returned, world, sh_a, sh_b, xmlVars>>

HostNext == CallSameHost

HostSpec == HostInit /\ [][HostNext]_vars

(***************************************************************************)
(* _read_xml_text and _parse_sitemap_xml applied to one response           *)
(***************************************************************************)
XmlDocs ==
    { Index(<<C1, C2>>),
      Xml(<<"SITEMAPINDEX">>, <<C1>>),
      Urlset(<<A, B>>),
      Urlset(<<<<" ">> \o A, <<>>, OTHERX>>),
      Malformed,
      NoText }

ContentTypes == {"application/gzip", "application/x-gzip", "application/xml", ""}

XmlResponses ==
    {Ok(ct, gz, xml) : ct \in ContentTypes, gz \in BOOLEAN, xml \in XmlDocs}
        \cup {NoResponse}

\* lines 216-222: the root tag and <loc> values a response contributes
Contribution(resp, url) ==
    LET xml_text == _read_xml_text(resp, url)
    IN  IF xml_text.empty THEN <<<<>>, <<>>>>
        ELSE _parse_sitemap_xml(xml_text)

\* the response that carries the same XML as plain text
PlainTwin(resp) == Ok("application/xml", FALSE, resp.xml)

XmlInit ==
    /\ pc = "read_xml"
    /\ rx_resp \in XmlResponses
    /\ rx_url \in {C2, C2GZ}
    /\ rx_out = <<<<>>, <<>>>>
    /\ rx_ref = <<<<>>, <<>>>>
    /\ home_url = <<>>
    /\ selected_category = "All Pages"
    /\ max_pages = 0
    /\ target_urls = <<>>
    /\ visited = {}
    /\ queue = <<>>
    /\ results = <<>>
    /\ Untouched
    /\ sh_a = <<>>
    /\ sh_b = <<>>
    /\ sh_res = FALSE

\* lines 216, 220
CallReadXml ==
    /\ pc = "read_xml"
    /\ rx_out' = Contribution(rx_resp, rx_url)
    /\ rx_ref' = Contribution(PlainTwin(rx_resp), C2)
    /\ pc' = "parsed"
    /\ UNCHANGED <<ui, home_url, selected_category, max_pages, target_urls,
                   crawlVars, all_urls, requests, failures, matchVars,
                   visit_limit, to_visit, seen_sitemaps, found_urls,
                   sitemap_urls, returned, world, hostVars, rx_resp, rx_url>>

XmlNext == CallReadXml

XmlSpec == XmlInit /\ [][XmlNext]_vars

(***************************************************************************)
(* Properties                                                              *)
(***************************************************************************)
NoDup(s) == \A i, j \in 1..Len(s) : i < j => s[i] # s[j]

RequestsOf(run) == SelectSeq(requests, LAMBDA r : r.run = run)

\* the resolver has returned (to find_all_internal_urls)
ResolverReturned ==
    /\ pc \in {"fallback", "done"}
    /\ requests # <<>>
    /\ requests[1].run = "robots"

\* C1: the category crawl terminates; the size of visited never decreases
\* and never exceeds the page budget, and no more than page-budget GETs are
\* issued by the crawl.
C1_CrawlTerminatesWithinBudget ==
    /\ [](/\ Cardinality(visited) <= max_pages
          /\ Len(RequestsOf("crawl")) <= max_pages)
    /\ [][pc = "crawl" => Cardinality(visited') >= Cardinality(visited)]_vars
    /\ (pc = "crawl") ~> (pc # "crawl")

\* the budget stopped a crawl of the cyclic site, after a failed fetch
C1_Witness ==
    /\ pc = "done"
    /\ ui = "results"
    /\ max_pages > 0
    /\ Cardinality(visited) = max_pages
    /\ queue # <<>>
    /\ failures > 0

\* C2: in the category crawl and in the fallback crawl the frontier holds no
\* URL twice and no URL that is already visited.
C2_FrontierDistinctUnvisited ==
    pc \in {"crawl", "fallback"} =>
        /\ NoDup(queue)
        /\ \A i \in 1..Len(queue) : queue[i] \notin visited

\* the blog page (linking to itself, to a visited page, twice to a new
\* page) has been expanded
C2_Witness ==
    /\ pc = "crawl"
    /\ {A, BLOG} \subseteq visited
    /\ queue = <<B, BSlash, E>>

\* C3: the to-visit list of the sitemap resolver never holds the same
\* not-yet-seen sitemap URL more than once.
C3_ToVisitDistinctUnseen ==
    pc = "sitemaps" =>
        \A i, j \in 1..Len(to_visit) :
            (i < j /\ to_visit[i] = to_visit[j])
                => to_visit[i] \in seen_sitemaps

\* C4: within one run no URL is requested twice.
C4_NoUrlFetchedTwice ==
    \A i, j \in 1..Len(requests) :
        (i < j /\ requests[i].run = requests[j].run)
            => requests[i].url # requests[j].url

\* both indexes naming c1.xml and each other have been read, and the
\* to-visit list is used up
C4_Witness ==
    /\ pc = "sitemaps"
    /\ {SMI, SMD, C1} \subseteq seen_sitemaps
    /\ to_visit = <<>>

FirstIndex(u, s) ==
    CHOOSE i \in 1..Len(s) : s[i] = u /\ \A j \in 1..(i - 1) : s[j] # u

\* C5: the list the sitemap resolver returns has no duplicate and lists the
\* URLs in the order of their first discovery; the index of two urlsets of
\* three URLs sharing one yields the five URLs in that order.
C5_ResolverDistinctInDiscoveryOrder ==
    ResolverReturned =>
        /\ NoDup(sitemap_urls)
        /\ Range(sitemap_urls) = Range(found_urls)
        /\ \A i, j \in 1..Len(sitemap_urls) :
             i < j => FirstIndex(sitemap_urls[i], found_urls)
                        < FirstIndex(sitemap_urls[j], found_urls)
        /\ (/\ world = 2
            /\ home_url = H \o <<"/">>
            /\ visit_limit = DefaultVisitLimit
            /\ \A i \in 1..Len(requests) :
                 requests[i].run = "sitemap" => requests[i].ok)
           => sitemap_urls = <<A, B, BLOG, E, BSlash>>

\* the two-level index has been resolved
C5_Witness ==
    /\ ResolverReturned
    /\ world = 2
    /\ found_urls = <<A, B, BLOG, B, E, BSlash>>
    /\ returned = <<A, B, BLOG, E, BSlash>>

RECURSIVE AllLinks(_)
\* every hyperlink of every crawled page, as <<page, link, anchor>>
AllLinks(pages) ==
    IF pages = <<>> THEN <<>>
    ELSE [i \in 1..Len(Head(pages)[2]) |->
            <<Head(pages)[1], Head(pages)[2][i][1], Head(pages)[2][i][2]>>]
         \o AllLinks(Tail(pages))

LinksTo(T) ==
    LET hits == SelectSeq(AllLinks(results), LAMBDA l : RStripSlash(l[2]) = T)
    IN  [i \in 1..Len(hits) |-> <<hits[i][1], hits[i][3]>>]

\* C6: each bucket is exactly the (page, anchor) pairs of the links whose
\* URL without trailing slash is the target, in crawl then extraction
\* order; pages A -> B ("Go") and B -> A ("") with target B give
\* {B: [(A, "Go")]}.
C6_BucketsAreLinksToTarget ==
    ui = "results" =>
        /\ \A T \in DOMAIN matches_by_target :
             matches_by_target[T] = LinksTo(T)
        /\ (/\ results = << <<A, << <<B, "Go">> >> >>, <<B, << <<A, "">> >> >> >>
            /\ target_urls = <<B>>)
           => matches_by_target = (B :> << <<A, "Go">> >>)

\* the crawl recorded A, B and the blog page; B is linked from A and, with
\* a trailing slash, from the blog page
C6_Witness ==
    /\ ui = "results"
    /\ B \in DOMAIN matches_by_target
    /\ matches_by_target[B] = << <<A, "Go">>, <<BLOG, "Slash">> >>

\* the fetch of request r failed: transport failure, non-200, empty body
Failed(r) ==
    \/ ~r.ok
    \/ ~Fetchable(r.url)
    \/ Web(Requested(r.url)).status # 200
    \/ Web(Requested(r.url)).text = <<>>

Count(s, Test(_)) == Len(SelectSeq(s, Test))

\* C7: a page whose fetch fails is visited, requested once, recorded (when
\* the category accepts its URL) once with an empty link list, and the
\* crawl only stops on an empty frontier or a used-up budget.
C7_FailedPageVisitedOnceEmpty ==
    /\ \A i \in 1..Len(requests) :
         (requests[i].run = "crawl" /\ Failed(requests[i])) =>
            LET url == requests[i].url
            IN  /\ url \in visited
                /\ Count(requests, LAMBDA r : r.url = url) = 1
                /\ Count(results, LAMBDA p : p[1] = url) =
                     IF Recorded(selected_category, url) THEN 1 ELSE 0
                /\ \A k \in 1..Len(results) :
                     results[k][1] = url => results[k][2] = <<>>
    /\ (pc \in {"match", "done"} /\ RequestsOf("crawl") # <<>>)
         => (queue = <<>> \/ Cardinality(visited) >= max_pages)

\* a page answered 500, and the crawl went on to fetch another page
C7_Witness ==
    /\ pc = "crawl"
    /\ \E i \in 1..Len(requests) :
         /\ requests[i].url = UPB
         /\ requests[i].ok
         /\ i < Len(requests)
    /\ \E k \in 1..Len(results) : results[k] = <<UPB, <<>>>>

\* C8: a non-empty resolver result is returned unchanged and no fallback
\* GET is issued; the fallback crawl runs only after an empty result.
C8_SitemapResultAuthoritative ==
    /\ (ResolverReturned /\ sitemap_urls # <<>>) =>
          /\ pc = "done"
          /\ returned = sitemap_urls
          /\ RequestsOf("fallback") = <<>>
    /\ (pc = "fallback" \/ RequestsOf("fallback") # <<>>) =>
          /\ ResolverReturned
          /\ sitemap_urls = <<>>

\* the resolver found URLs in an order that is not the sorted one, and they
\* were returned
C8_Witness ==
    /\ pc = "done"
    /\ world = 3
    /\ sitemap_urls = <<A, WWWA, B>>
    /\ returned = <<A, WWWA, B>>

\* C9: _same_host(a, b) holds exactly when the normalized hosts are equal
\* and non-empty.
C9_SameHostNeedsNonEmptyHost ==
    pc = "returned" =>
        (sh_res <=> (/\ _norm_netloc(sh_a) = _norm_netloc(sh_b)
                     /\ _norm_netloc(sh_a) # <<>>))

\* C10: no two keys of the result are equal after normalization (trim,
\* strip the trailing slash).
C10_NoTwoKeysNormalizeEqual ==
    ui = "results" =>
        \A k1, k2 \in DOMAIN matches_by_target :
            NormalizeTarget(k1) = NormalizeTarget(k2) => k1 = k2

\* C11 (as amended): when the crawl recorded at least one page, the buckets
\* are keyed by exactly the normalized targets and a target that no
\* recorded page links to has an empty bucket; when the crawl recorded no
\* page, no bucket is built and a warning is shown.
C11_BucketPerTargetWhenCrawled ==
    /\ (pc = "match" \/ ui = "results") =>
          /\ DOMAIN matches_by_target = Range(target_urls)
          /\ results # <<>>
    /\ ui = "results" =>
          \A T \in Range(target_urls) :
              LinksTo(T) = <<>> => matches_by_target[T] = <<>>
    /\ (pc = "done" /\ home_url # <<>> /\ target_urls # <<>>
            /\ results = <<>>) =>
          /\ ui = "warning"
          /\ DOMAIN matches_by_target = {}

\* two targets, one linked from the crawled pages and one linked from none
C11_Witness ==
    /\ ui = "results"
    /\ DOMAIN matches_by_target = {A, B \o <<" ">>}
    /\ matches_by_target[A] # <<>>
    /\ matches_by_target[B \o <<" ">>] = <<>>

\* C11 (as stated): every run with a homepage and a target ends with a
\* bucket for every normalized target, also when no page was recorded.
C11_BucketPerTargetAlways ==
    (pc = "done" /\ home_url # <<>> /\ target_urls # <<>>) =>
        DOMAIN matches_by_target = Range(target_urls)

\* the response is marked as gzip by its URL or its content type
GzipMarked(resp, url) == EndsWithGz(url) \/ GzipInCt(resp.ct)

\* C12: a gzip-marked response whose body is a gzip stream contributes the
\* same root tag and <loc> values as the plain-text response carrying the
\* same XML; an unmarked response is read as the text its body is.
C12_GzipParsedLikePlain ==
    (pc = "parsed" /\ rx_resp # NoResponse) =>
        /\ (GzipMarked(rx_resp, rx_url) /\ rx_resp.gz) => rx_out = rx_ref
        /\ (~GzipMarked(rx_resp, rx_url) /\ ~rx_resp.gz) => rx_out = rx_ref

\* a gzipped sitemap index served as application/gzip has been parsed
C12_Witness ==
    /\ pc = "parsed"
    /\ rx_resp = Ok("application/gzip", TRUE, Index(<<C1, C2>>))
    /\ rx_url = C2
    /\ rx_out = <<<<"sitemapindex">>, <<C1, C2>>>>

\* the category predicate: does the category accept the URL
Accepts(cat, url) ==
    CASE cat = "All Pages" -> TRUE
      [] cat = "Blog Pages" -> Contains(url, <<"/", "blog">>)
      [] cat = "Blog Categories" -> Contains(url, <<"/", "category">>)
      [] cat = "Product Pages" ->
           \/ Contains(url, <<"/", "product">>)
           \/ Contains(url, <<"/", "products">>)
      [] OTHER -> FALSE

\* a category crawl has been entered
CategoryCrawl ==
    \/ pc \in {"crawl", "match"}
    \/ pc = "done" /\ home_url # <<>> /\ target_urls # <<>>

\* the pages of the result sequence, in order
ResultPages == [i \in 1..Len(results) |-> results[i][1]]

\* C13: in a category crawl a visited URL is in the results iff the category
\* accepts its own URL; every URL in the frontier or visited is the home URL
\* (trailing slashes stripped) or is accepted; and every accepted link of a
\* fetched page has been enqueued (it is visited or queued).
C13_PredicateDecidesRecordingAndExpansion ==
    CategoryCrawl =>
        /\ \A u \in visited :
               InSeq(u, ResultPages) <=> Accepts(selected_category, u)
        /\ Range(ResultPages) \subseteq visited
        /\ \A u \in visited \cup Range(queue) :
               u = RStripSlash(home_url) \/ Accepts(selected_category, u)
        /\ \A i \in 1..Len(requests) :
               LET r == requests[i]
                   links == get_internal_links(r.url, r.ok)
               IN  \A k \in 1..Len(links) :
                       Accepts(selected_category, links[k][1]) =>
                           links[k][1] \in visited \cup Range(queue)

\* a blog crawl went through the home page, which is not recorded, to the
\* blog page, whose links to other pages were not enqueued
C13_Witness ==
    /\ pc = "crawl"
    /\ selected_category = "Blog Pages"
    /\ visited = {H, BLOG}
    /\ ResultPages = <<BLOG>>
    /\ Len(results[1][2]) = 5
    /\ queue = <<>>

\* C14: the resolver returns only when its to-visit list is exhausted or
\* visit_limit distinct page URLs have been found.
C14_StopsOnlyAtLimitOfDistinctUrls ==
    ResolverReturned =>
        \/ to_visit = <<>>
        \/ Cardinality(Range(found_urls)) >= visit_limit

\* the URLs the category crawl fetched, in the order it fetched them
VisitOrder ==
    [i \in 1..Len(RequestsOf("crawl")) |-> RequestsOf("crawl")[i].url]

\* the accepted links the crawl saw on page u (none while u is not fetched)
Successors(u) ==
    LET rs == SelectSeq(RequestsOf("crawl"), LAMBDA r : r.url = u)
    IN  IF rs = <<>> THEN {}
        ELSE LET links == get_internal_links(u, rs[1].ok)
             IN  {links[k][1] : k \in {n \in 1..Len(links) :
                        Accepts(selected_category, links[n][1])}}

RECURSIVE Within(_)
\* the URLs at most k links away from the home URL
Within(k) ==
    IF k = 0 THEN {RStripSlash(home_url)}
    ELSE LET W == Within(k - 1)
         IN  W \cup UNION {Successors(u) : u \in W}

\* the link distance from the home URL
Dist(u) ==
    CHOOSE k \in 0..(Cardinality(visited) + 1) :
        /\ u \in Within(k)
        /\ \A j \in 0..(k - 1) : u \notin Within(j)

\* C15: in a category crawl a page visited earlier is no farther from the
\* home URL than a page visited later, a page still in the queue is no
\* nearer than any visited page and the queue is in order of distance, and
\* the results list the recorded pages in the order they were visited.
C15_ShallowFirstInVisitOrder ==
    CategoryCrawl =>
        /\ Range(VisitOrder) = visited
        /\ \A i, j \in 1..Len(VisitOrder) :
               i < j => Dist(VisitOrder[i]) <= Dist(VisitOrder[j])
        /\ pc = "crawl" =>
               /\ \A u \in visited : \A i \in 1..Len(queue) :
                      Dist(u) <= Dist(queue[i])
               /\ \A i, j \in 1..Len(queue) :
                      i < j => Dist(queue[i]) <= Dist(queue[j])
        /\ ResultPages =
               SelectSeq(VisitOrder,
                         LAMBDA u : Accepts(selected_category, u))

\* the home page and its two links have been visited in the order of the
\* links; the pages they link to wait in the queue, two links from home
C15_Witness ==
    /\ pc = "crawl"
    /\ VisitOrder = <<H, A, BLOG>>
    /\ ResultPages = <<H, A, BLOG>>
    /\ Len(queue) = 3
    /\ \A i \in 1..Len(queue) : Dist(queue[i]) = 2

\* the GET of the sitemap at url gives nothing to parse: it fails in
\* transport, is answered with a status other than 200, has no text, fails
\* gzip decoding, or is not well-formed XML
BadSitemap(url, ok) ==
    \/ ~ok
    \/ ~Fetchable(url)
    \/ LET served == Served(world, url)
       IN  \/ served.status # 200
           \/ GzipMarked(served, url) /\ ~served.gz
           \/ ~GzipMarked(served, url) /\ served.gz
           \/ served.xml.empty
           \/ ~served.xml.wf

\* C16: a step of the resolver on a sitemap that cannot be fetched, has no
\* text, fails gzip decoding or is malformed only marks it seen and goes on
\* with the rest of the to-visit list; the resolver returns only with the
\* list exhausted or the limit reached; and when every sitemap it requested
\* was such a failure it returns the empty list and the fallback crawl is
\* set up from the home URL.
C16_BadSitemapSkippedNotFatal ==
    /\ [][(/\ pc = "sitemaps"
           /\ requests' # requests
           /\ BadSitemap(Head(to_visit), requests'[Len(requests')].ok))
          => /\ pc' = "sitemaps"
             /\ found_urls' = found_urls
             /\ to_visit' = Tail(to_visit)
             /\ seen_sitemaps' = seen_sitemaps \cup {Head(to_visit)}]_vars
    /\ [](ResolverReturned =>
              to_visit = <<>> \/ Len(found_urls) >= visit_limit)
    /\ [][(/\ pc = "sitemaps"
           /\ pc' # "sitemaps"
           /\ \A i \in 1..Len(requests) :
                  requests[i].run = "sitemap" =>
                      BadSitemap(requests[i].url, requests[i].ok))
          => /\ pc' = "fallback"
             /\ sitemap_urls' = <<>>
             /\ visited' = {}
             /\ queue' = <<RStripSlash(home_url)>>]_vars

\* a malformed sitemap.xml and a mislabelled gzip sitemap were met and the
\* urlsets queued behind them were still read
C16_Witness ==
    /\ ResolverReturned
    /\ world = 4
    /\ failures = 0
    /\ {SM, SMS, C1, C2} \subseteq seen_sitemaps
    /\ to_visit = <<>>
    /\ Len(found_urls) >= 4

\* C17: the resolver loop is always left; each iteration either marks one
\* more sitemap URL as seen or shortens the to-visit list without touching
\* the seen-set, so cyclic and nested indexes are read once each.
C17_ResolverTerminates ==
    /\ (pc = "sitemaps") ~> (pc # "sitemaps")
    /\ [][(pc = "sitemaps" /\ pc' = "sitemaps") =>
            \/ /\ seen_sitemaps \subseteq seen_sitemaps'
               /\ seen_sitemaps' # seen_sitemaps
            \/ /\ seen_sitemaps' = seen_sitemaps
               /\ Len(to_visit') < Len(to_visit)]_vars
    /\ [](Len(RequestsOf("sitemap")) = Cardinality(seen_sitemaps))

\* two indexes that list each other were both read and the resolver
\* returned with the to-visit list exhausted, the limit not reached
C17_Witness ==
    /\ pc # "sitemaps"
    /\ world = 4
    /\ {SMI, SMD} \subseteq seen_sitemaps
    /\ to_visit = <<>>
    /\ Len(found_urls) < visit_limit

\* find_all_internal_urls has returned the result of the fallback crawl
FallbackReturned == pc = "done" /\ ResolverReturned /\ sitemap_urls = <<>>

\* the visited URLs on the host of the home URL
VisitedSameHost ==
    {u \in visited : _norm_netloc(u) = _norm_netloc(home_url)}

\* line 191: a URL as it is returned
Normalized(u) == Strip(SplitHash0(u))

\* the visited URLs that are returned as r
Preimages(r) == {u \in VisitedSameHost : Normalized(u) = r}

\* C18 (as amended): when the sitemaps yield nothing the result holds, for
\* the visited same-host URLs of the fallback crawl, each URL with its
\* fragment dropped and trimmed, without duplicates, ordered as the visited
\* URLs they come from are ordered lexicographically; the crawl visits at
\* most the page budget of URLs, each fetched once, the first being the
\* home URL with its trailing slashes stripped.
C18_FallbackReturnsNormalizedVisited ==
    FallbackReturned =>
        /\ Range(returned) = {Normalized(u) : u \in VisitedSameHost}
        /\ NoDup(returned)
        /\ \A i, j \in 1..Len(returned) :
               i < j => \E u \in Preimages(returned[i]) :
                            \A v \in Preimages(returned[j]) : LexLess(u, v)
        /\ Cardinality(visited) <= max_pages
        /\ visited = all_urls
        /\ visited = {r.url : r \in Range(RequestsOf("fallback"))}
        /\ Len(RequestsOf("fallback")) = Cardinality(visited)
        /\ max_pages >= 1 =>
               RequestsOf("fallback")[1].url = RStripSlash(home_url)

\* the home URL was typed with a fragment: it is visited with the fragment
\* and returned without it
C18_Witness ==
    /\ FallbackReturned
    /\ home_url = H \o <<"#", "f">>
    /\ visited = {H \o <<"#", "f">>, A, BLOG}
    /\ returned = <<H, A, BLOG>>

\* C18 (as stated): the result is exactly the visited set of the fallback
\* crawl, same-host, without duplicates, sorted.
C18_FallbackReturnsVisitedSet ==
    FallbackReturned =>
        /\ Range(returned) = VisitedSameHost
        /\ NoDup(returned)
        /\ \A i, j \in 1..Len(returned) :
               i < j => LexLess(returned[i], returned[j])
        /\ Cardinality(visited) <= max_pages

\* every URL a crawl holds: queued, visited, recorded as a page or as the
\* target of a link of a recorded page
CrawlUrls ==
    visited \cup Range(queue) \cup Range(ResultPages)
        \cup UNION {{results[i][2][k][1] : k \in 1..Len(results[i][2])} :
                       i \in 1..Len(results)}

HasFragment(u) == InSeq("#", u)

\* C19 (as amended): in the category crawl and in the fallback crawl every
\* URL queued, visited or in the results has the normalized host of the
\* home URL, and every such URL other than the home URL itself (trailing
\* slashes stripped) carries no fragment.
C19_FrontierSameHostLinksNoFragment ==
    \A u \in CrawlUrls :
        /\ _norm_netloc(u) = _norm_netloc(home_url)
        /\ u # RStripSlash(home_url) => ~HasFragment(u)

\* a fallback crawl from a home URL typed with a fragment has expanded the
\* blog page, whose links with a fragment are queued without it
C19_Witness ==
    /\ pc = "fallback"
    /\ visited = {H \o <<"#", "f">>, A, BLOG}
    /\ queue = <<B, BSlash, E>>

\* C19 (as stated): every URL queued, visited or in the results has the
\* normalized host of the home URL and carries no fragment.
C19_FrontierSameHostNoFragment ==
    \A u \in CrawlUrls :
        /\ _norm_netloc(u) = _norm_netloc(home_url)
        /\ ~HasFragment(u)

\* C20: the first URL a category crawl fetches is the home URL with its
\* trailing slashes stripped, and with a budget of at least 1 it is fetched;
\* the home page is in the results only if the category accepts its URL,
\* and when it does not, no bucket holds a match found on the home page.
C20_HomeFetchedFirstRecordedIfAccepted ==
    CategoryCrawl =>
        LET home == RStripSlash(home_url)
        IN  /\ VisitOrder # <<>> => VisitOrder[1] = home
            /\ (max_pages >= 1 /\ pc # "crawl") => VisitOrder # <<>>
            /\ InSeq(home, ResultPages) =>
                   Accepts(selected_category, home)
            /\ ~Accepts(selected_category, home) =>
                   \A T \in DOMAIN matches_by_target :
                       \A k \in 1..Len(matches_by_target[T]) :
                           matches_by_target[T][k][1] # home

\* a blog crawl from the home page, which links to the target: the only
\* match reported is the one found on the blog page
C20_Witness ==
    /\ ui = "results"
    /\ selected_category = "Blog Pages"
    /\ home_url = H \o <<"/">>
    /\ VisitOrder = <<H, BLOG>>
    /\ A \in DOMAIN matches_by_target
    /\ matches_by_target[A] = << <<BLOG, "Back">> >>

====
